---- MODULE Spec2Model ----
(***************************************************************************)
(* Model of app/agent.py: the research pipeline (section_planner,          *)
(* section_researcher, iterative_refinement_loop, report_composer), the    *)
(* evidence registry kept by collect_research_sources_callback, the        *)
(* EscalationChecker and the citation renderer                             *)
(* citation_replacement_callback.                                          *)
(*                                                                         *)
(* Text (urls, titles, short ids, reports) is a sequence of one-character  *)
(* strings, so that the regular expressions of the renderer are modelled   *)
(* by what they match.  A Python value that may be None is a sequence of   *)
(* length 0 (None) or 1 (the value).  Confidence scores are in tenths      *)
(* (9 is 0.9, 5 is 0.5, 15 is 1.5).                                        *)
(***************************************************************************)
EXTENDS Integers, Sequences, FiniteSets, TLC

VARIABLES
    pc,                          \* the agent (or after-agent callback) that runs next
    max_iterations,              \* LoopAgent.max_iterations of iterative_refinement_loop
    times_looped,                \* completed iterations of iterative_refinement_loop
    events,                      \* session.events
    url_to_short_id,             \* state["url_to_short_id"]
    sources,                     \* state["sources"]
    report_sections,             \* state["report_sections"]: the position in
                                 \* session.events of the event whose text it holds
    section_research_findings,   \* state["section_research_findings"], likewise
    research_evaluation,         \* state["research_evaluation"]
    final_cited_report,          \* state["final_cited_report"]
    final_report_with_citations, \* state["final_report_with_citations"]
    failure,                     \* the stage whose exception ended the run, if any
    claim_origin,                \* history: for each source, the index in session.events
                                 \* of the event each of its supported_claims came from
    claim_index                  \* history: for each source, the chunk index each of
                                 \* its supported_claims was resolved from

vars == <<pc, max_iterations, times_looped, events, url_to_short_id, sources,
          report_sections, section_research_findings, research_evaluation,
          final_cited_report, final_report_with_citations, failure,
          claim_origin, claim_index>>

\* ------------------------------------------------------------------ values

None == <<>>
Some(x) == <<x>>

\* The largest max_iterations the model is run with.
MaxN == 3

\* config.max_search_iterations (app/config.py): an iteration budget N >= 1.
ConfigMaxSearchIterations == 1..MaxN

DigitChar == <<"0", "1", "2", "3", "4", "5", "6", "7", "8", "9">>

RECURSIVE Digits(_)
\* str(n) for n >= 0, as the f-string of line 66 formats id_counter.
Digits(n) ==
    IF n < 10 THEN <<DigitChar[n + 1]>>
    ELSE Digits(n \div 10) \o <<DigitChar[(n % 10) + 1]>>

SrcDash == <<"s", "r", "c", "-">>

\* f"src-{id_counter}"
ShortId(n) == SrcDash \o Digits(n)

UrlA == <<"h", "t", "t", "p", "s", ":", "/", "/", "a", ".", "c", "o", "m">>
UrlB == <<"h", "t", "t", "p", "s", ":", "/", "/", "b", ".", "c", "o", "m">>
UrlC == <<"h", "t", "t", "p", "s", ":", "/", "/", "c", ".", "c", "o", "m">>
UrlD == <<"h", "t", "t", "p", "s", ":", "/", "/", "d", ".", "c", "o", "m">>
DomainA == <<"a", ".", "c", "o", "m">>
DomainB == <<"b", ".", "c", "o", "m">>
DomainC == <<"c", ".", "c", "o", "m">>
DomainD == <<"d", ".", "c", "o", "m">>
TitleA == <<"A">>
\* 'Q :x': a page title with a space before a colon.
TitleD == <<"Q", " ", ":", "x">>
EmptyText == <<>>

\* GroundingChunk.web values the search tool may return.
WebA == [uri |-> UrlA, title |-> TitleA, domain |-> DomainA]
WebB == [uri |-> UrlB, title |-> EmptyText, domain |-> DomainB]
WebC == [uri |-> UrlC, title |-> DomainC, domain |-> DomainC]
WebD == [uri |-> UrlD, title |-> TitleD, domain |-> DomainD]

Chunk(web) == [web |-> Some(web)]
NoWebChunk == [web |-> None]

SegClaim == <<"c", "l", "a", "i", "m">>
SegTwo == <<"s", "2">>

Support(segment, scores, indices) ==
    [segment |-> segment, confidence_scores |-> scores,
     grounding_chunk_indices |-> indices]

Metadata(chunks, supports) ==
    [grounding_chunks |-> chunks, grounding_supports |-> supports]

\* event.grounding_metadata of the events a searching agent may emit (the events
\* of the other agents carry None).  Indices are 0-based as in the wire format.
GroundingChoices ==
    { Some(Metadata(<<Chunk(WebA)>>,
                    <<Support(Some([text |-> SegClaim]), Some(<<9>>), Some(<<0>>))>>)),
      Some(Metadata(<<NoWebChunk, Chunk(WebB), Chunk(WebA)>>,
                    <<Support(None, None, Some(<<2, 1, 0, 5>>))>>)),
      Some(Metadata(<<Chunk(WebB), Chunk(WebA)>>,
                    <<Support(Some([text |-> SegTwo]), Some(<<15>>), Some(<<0, 0>>)),
                      Support(Some([text |-> SegClaim]), Some(<<>>), Some(<<1>>)),
                      Support(Some([text |-> SegTwo]), Some(<<3>>), None)>>)),
      Some(Metadata(<<Chunk(WebD), Chunk(WebC)>>, <<>>)),
      Some(Metadata(<<>>,
                    <<Support(Some([text |-> SegTwo]), Some(<<9>>), Some(<<0>>))>>)) }

\* An Event of session.events: its author, its grounding_metadata (or None),
\* actions.escalate, and the Feedback grade its content holds (None for content
\* that is no Feedback).
AgentEvent(author, grounding, escalate, feedback) ==
    [author |-> author, grounding_metadata |-> grounding, escalate |-> escalate,
     feedback |-> feedback]

\* ---------------------------------------------------- the evidence registry

\* A counter that starts again at 1 on every invocation.
InitialIdCounterRestart(u2s) == 1

\* id_counter = len(url_to_short_id) + 1
InitialIdCounter(u2s) == Cardinality(DOMAIN u2s) + 1

\* A source record with its url and its domain in each other's place.
NewSourceSwapped(short_id, title, url, domain) ==
    [short_id |-> short_id, title |-> title, url |-> domain, domain |-> url,
     supported_claims |-> <<>>]

\* d[k] = v of a Python dict: the key is added, or its value replaced.
DictSet(d, k, v) == [x \in (DOMAIN d) \cup {k} |-> IF x = k THEN v ELSE d[x]]

NewSource(short_id, title, url, domain) ==
    [short_id |-> short_id, title |-> title, url |-> url, domain |-> domain,
     supported_claims |-> <<>>]

\* A chunk loop without the test "if url not in url_to_short_id": every web
\* chunk gets a new short id and a new source record.
CollectChunkAlwaysNew(reg, info, idx, chunk) ==
    IF chunk.web = None
    THEN [reg |-> reg, info |-> info]
    ELSE LET web == chunk.web[1]
             url == web.uri
             title == IF web.title # web.domain THEN web.title ELSE web.domain
             short_id == ShortId(reg.id_counter)
             reg1 == [url_to_short_id |->
                          DictSet(reg.url_to_short_id, url, short_id),
                      sources |->
                          DictSet(reg.sources, short_id,
                                  NewSource(short_id, title, url, web.domain)),
                      origin |-> DictSet(reg.origin, short_id, <<>>),
                      index |-> DictSet(reg.index, short_id, <<>>),
                      id_counter |-> reg.id_counter + 1]
         IN  [reg |-> reg1, info |-> DictSet(info, idx, reg1.url_to_short_id[url])]

\* A chunk loop that counts the chunks from 1, as
\* "for idx, chunk in enumerate(grounding_chunks, 1)" does.
CollectChunkOneBased(reg, info, idx, chunk) ==
    IF chunk.web = None
    THEN [reg |-> reg, info |-> info]
    ELSE LET web == chunk.web[1]
             url == web.uri
             title == IF web.title # web.domain THEN web.title ELSE web.domain
             short_id == ShortId(reg.id_counter)
             reg1 == IF url \notin DOMAIN reg.url_to_short_id
                     THEN [url_to_short_id |->
                               DictSet(reg.url_to_short_id, url, short_id),
                           sources |->
                               DictSet(reg.sources, short_id,
                                       NewSource(short_id, title, url, web.domain)),
                           origin |-> DictSet(reg.origin, short_id, <<>>),
                           index |-> DictSet(reg.index, short_id, <<>>),
                           id_counter |-> reg.id_counter + 1]
                     ELSE reg
         IN  [reg |-> reg1, info |-> DictSet(info, idx + 1, reg1.url_to_short_id[url])]

\* The body of "for idx, chunk in enumerate(grounding_chunks)" for one chunk:
\* reg is the registry so far (with the history claim_origin as origin),
\* info is chunks_info.
CollectChunk(reg, info, idx, chunk) ==
    IF chunk.web = None
    THEN [reg |-> reg, info |-> info]
    ELSE LET web == chunk.web[1]
             url == web.uri
             title == IF web.title # web.domain THEN web.title ELSE web.domain
             short_id == ShortId(reg.id_counter)
             reg1 == IF url \notin DOMAIN reg.url_to_short_id
                     THEN [url_to_short_id |->
                               DictSet(reg.url_to_short_id, url, short_id),
                           sources |->
                               DictSet(reg.sources, short_id,
                                       NewSource(short_id, title, url, web.domain)),
                           origin |-> DictSet(reg.origin, short_id, <<>>),
                           index |-> DictSet(reg.index, short_id, <<>>),
                           id_counter |-> reg.id_counter + 1]
                     ELSE reg
         IN  [reg |-> reg1, info |-> DictSet(info, idx, reg1.url_to_short_id[url])]

RECURSIVE CollectChunks(_, _, _, _)
\* The chunk loop from 0-based index idx on.
CollectChunks(reg, info, idx, chunks) ==
    IF idx >= Len(chunks)
    THEN [reg |-> reg, info |-> info]
    ELSE LET r == CollectChunk(reg, info, idx, chunks[idx + 1])
         IN  CollectChunks(r.reg, r.info, idx + 1, chunks)

\* "x or []" for a value that may be None.
OrEmpty(m) == IF m = None THEN <<>> ELSE m[1]

DefaultConfidence == 5

\* A confidence read at position 0 whatever the position of the chunk index.
ConfidenceFirstScore(confidence_scores, i) ==
    IF 0 < Len(confidence_scores) THEN confidence_scores[1] ELSE DefaultConfidence

\* confidence_scores[i] if i < len(confidence_scores) else 0.5
Confidence(confidence_scores, i) ==
    IF i < Len(confidence_scores) THEN confidence_scores[i + 1] ELSE DefaultConfidence

\* support.segment.text if support.segment else ""
TextSegment(support) ==
    IF support.segment # None THEN support.segment[1].text ELSE EmptyText

\* An index loop that keeps only the last claim of a source.
CollectIndexReplace(reg, info, support, i, chunk_idx, ev) ==
    IF chunk_idx \in DOMAIN info
    THEN LET short_id == info[chunk_idx]
             claim == [text_segment |-> TextSegment(support),
                       confidence |-> Confidence(OrEmpty(support.confidence_scores), i)]
         IN  [reg EXCEPT !.sources[short_id].supported_claims = <<claim>>,
                         !.origin[short_id] = <<ev>>,
                         !.index[short_id] = <<chunk_idx>>]
    ELSE reg

\* The body of "for i, chunk_idx in enumerate(chunk_indices)" for one index;
\* ev is the position in session.events of the event being read.
CollectIndex(reg, info, support, i, chunk_idx, ev) ==
    IF chunk_idx \in DOMAIN info
    THEN LET short_id == info[chunk_idx]
             claim == [text_segment |-> TextSegment(support),
                       confidence |-> Confidence(OrEmpty(support.confidence_scores), i)]
         IN  [reg EXCEPT !.sources[short_id].supported_claims = Append(@, claim),
                         !.origin[short_id] = Append(@, ev),
                         !.index[short_id] = Append(@, chunk_idx)]
    ELSE reg

RECURSIVE CollectIndices(_, _, _, _, _)
CollectIndices(reg, info, support, i, ev) ==
    LET chunk_indices == OrEmpty(support.grounding_chunk_indices)
    IN  IF i >= Len(chunk_indices)
        THEN reg
        ELSE CollectIndices(
                 CollectIndex(reg, info, support, i, chunk_indices[i + 1], ev),
                 info, support, i + 1, ev)

RECURSIVE CollectSupports(_, _, _, _, _)
\* "for support in grounding_supports", from the k-th (1-based) support on.
CollectSupports(reg, info, supports, k, ev) ==
    IF k > Len(supports)
    THEN reg
    ELSE CollectSupports(CollectIndices(reg, info, supports[k], 0, ev),
                         info, supports, k + 1, ev)

\* The body of "for event in session.events" for one event.
CollectEvent(reg, event, ev) ==
    IF event.grounding_metadata = None
       \/ event.grounding_metadata[1].grounding_chunks = <<>>
    THEN reg
    ELSE LET gm == event.grounding_metadata[1]
             r == CollectChunks(reg, <<>>, 0, gm.grounding_chunks)
         IN  CollectSupports(r.reg, r.info, gm.grounding_supports, 1, ev)

RECURSIVE CollectEvents(_, _, _)
\* "for event in session.events", from the ev-th (1-based) event on.
CollectEvents(reg, evs, ev) ==
    IF ev > Len(evs)
    THEN reg
    ELSE CollectEvents(CollectEvent(reg, evs[ev], ev), evs, ev + 1)

\* collect_research_sources_callback on session events evs with the state's
\* url_to_short_id and sources (u2s, srcs); origin and index are the history
\* of srcs: the event and the chunk index each claim came from.
CollectResearchSources(evs, u2s, srcs, origin, index) ==
    CollectEvents([url_to_short_id |-> u2s, sources |-> srcs, origin |-> origin,
                   index |-> index, id_counter |-> InitialIdCounter(u2s)],
                  evs, 1)

\* ------------------------------------------------------ the citation renderer

\* \s of the re module, within the characters the model's texts use.
Whitespace == {" ", "\t", "\n"}
\* \d
Digit == {"0", "1", "2", "3", "4", "5", "6", "7", "8", "9"}
\* ["\']
Quote == {"\"", "'"}
\* [.,;:]
Punctuation == {".", ",", ";", ":"}

CiteOpen == <<"<", "c", "i", "t", "e">>
SourceWord == <<"s", "o", "u", "r", "c", "e">>
Equals == <<"=">>
SlashClose == <<"/", ">">>

\* Matching the literal lit in s at position i (1-based): the position after it,
\* or 0 when it is not there.
Lit(s, i, lit) ==
    IF i = 0 \/ i + Len(lit) - 1 > Len(s) THEN 0
    ELSE IF \A k \in 1..Len(lit) : s[i + k - 1] = lit[k] THEN i + Len(lit) ELSE 0

RECURSIVE Star(_, _, _)
\* A greedy C* at position i: the position after the longest run of characters
\* of class C (0 stays 0).
Star(s, i, C) ==
    IF i = 0 THEN 0
    ELSE IF i <= Len(s) /\ s[i] \in C THEN Star(s, i + 1, C) ELSE i

\* C+
Plus(s, i, C) == IF Star(s, i, C) > i THEN Star(s, i, C) ELSE 0

\* C?
Opt(s, i, C) ==
    IF i = 0 THEN 0 ELSE IF i <= Len(s) /\ s[i] \in C THEN i + 1 ELSE i

\* ["\']? of the citation pattern, before and after the id.
OptQuote(s, i) == Opt(s, i, Quote)

\* r'<cite\s+source\s*=\s*["\']?\s*(src-\d+)\s*["\']?\s*/>' tried at position i:
\* whether it matches, the position after the match and group 1.  Every repeated
\* class is disjoint from what may follow it, so the greedy match is the only one.
CiteMatch(s, i) ==
    LET p1 == Lit(s, i, CiteOpen)
        p2 == Plus(s, p1, Whitespace)
        p3 == Lit(s, p2, SourceWord)
        p4 == Star(s, p3, Whitespace)
        p5 == Lit(s, p4, Equals)
        p6 == Star(s, p5, Whitespace)
        p7 == OptQuote(s, p6)
        p8 == Star(s, p7, Whitespace)
        p9 == Lit(s, p8, SrcDash)
        p10 == Plus(s, p9, Digit)
        p11 == Star(s, p10, Whitespace)
        p12 == OptQuote(s, p11)
        p13 == Star(s, p12, Whitespace)
        p14 == Lit(s, p13, SlashClose)
    IN  IF p14 = 0
        THEN [ok |-> FALSE, end |-> 0, group1 |-> <<>>]
        ELSE [ok |-> TRUE, end |-> p14, group1 |-> SubSeq(s, p8, p10 - 1)]

\* source_info.get("title", source_info.get("domain", short_id))
DisplayText(source_info, short_id) ==
    IF "title" \in DOMAIN source_info THEN source_info.title
    ELSE IF "domain" \in DOMAIN source_info THEN source_info.domain
         ELSE short_id

\* tag_replacer: the replacement for a match whose group 1 is short_id.
TagReplacer(short_id, srcs) ==
    IF short_id \notin DOMAIN srcs \/ DOMAIN srcs[short_id] = {}
    THEN <<>>
    ELSE <<" ", "[">> \o DisplayText(srcs[short_id], short_id) \o <<"]", "(">>
         \o srcs[short_id].url \o <<")">>

RECURSIVE SubCite(_, _, _)
\* re.sub(citation pattern, tag_replacer, s) from position i on: matches are
\* found left to right and do not overlap; replaced text is not scanned again.
SubCite(s, i, srcs) ==
    IF i > Len(s) THEN <<>>
    ELSE LET m == CiteMatch(s, i)
         IN  IF m.ok
             THEN TagReplacer(m.group1, srcs) \o SubCite(s, m.end, srcs)
             ELSE <<s[i]>> \o SubCite(s, i + 1, srcs)

RECURSIVE SubPunctOneSpace(_, _)
\* A cleanup that removes one whitespace character before punctuation, as
\* re.sub(r"\s([.,;:])", r"\1", s) does.
SubPunctOneSpace(s, i) ==
    IF i > Len(s) THEN <<>>
    ELSE IF i < Len(s) /\ s[i] \in Whitespace /\ s[i + 1] \in Punctuation
         THEN <<s[i + 1]>> \o SubPunctOneSpace(s, i + 2)
         ELSE <<s[i]>> \o SubPunctOneSpace(s, i + 1)

RECURSIVE SubPunct(_, _)
\* re.sub(r"\s+([.,;:])", r"\1", s) from position i on.
SubPunct(s, i) ==
    IF i > Len(s) THEN <<>>
    ELSE LET j == Plus(s, i, Whitespace)
         IN  IF j # 0 /\ j <= Len(s) /\ s[j] \in Punctuation
             THEN <<s[j]>> \o SubPunct(s, j + 1)
             ELSE <<s[i]>> \o SubPunct(s, i + 1)

\* processed_report of citation_replacement_callback.
ProcessedReport(final_report, srcs) == SubPunct(SubCite(final_report, 1, srcs), 1)

\* ------------------------------------------------- reports the composer writes

Sp == <<" ">>
Comma == <<",">>
Dot == <<".">>
DQ == <<"\"">>
SQ == <<"'">>
Revenue == <<"R", "e", "v", "e", "n", "u", "e">>
Grew == <<"g", "r", "e", "w">>
Says == <<"s", "a", "y", "s">>
Report == <<"r", "e", "p", "o", "r", "t">>

\* '<cite source=' ql w1 id w2 qr ' />', with ql and qr a quote or nothing and
\* w1, w2 whitespace or nothing.
Cite(ql, w1, id, w2, qr) ==
    CiteOpen \o Sp \o SourceWord \o Equals \o ql \o w1 \o id \o w2 \o qr \o Sp
    \o SlashClose

\* 'Revenue grew <cite source="src-1" /> , says report.'
RevenueReport ==
    Revenue \o Sp \o Grew \o Sp \o Cite(DQ, <<>>, ShortId(1), <<>>, DQ) \o Sp
    \o Comma \o Sp \o Says \o Sp \o Report \o Dot

\* '<cite source<cite source="src-9" />="src-1" />': a marker written around
\* another one.
NestedReport ==
    CiteOpen \o Sp \o SourceWord \o Cite(DQ, <<>>, ShortId(9), <<>>, DQ) \o Equals
    \o DQ \o ShortId(1) \o DQ \o Sp \o SlashClose

\* 'Revenue grew , says report.': no marker.
PlainReport == Revenue \o Sp \o Grew \o Sp \o Comma \o Sp \o Says \o Sp \o Report \o Dot

\* 'Revenue grew, says report.': no marker and no whitespace before punctuation.
CleanReport == Revenue \o Sp \o Grew \o Comma \o Sp \o Says \o Sp \o Report \o Dot

\* 'grew \t.\n;: says': no marker, runs of whitespace before punctuation.
SpacedPunctReport ==
    Grew \o <<" ", "\t">> \o Dot \o <<"\n", ";", ":">> \o Sp \o Says

\* '<cite source="src-x" />': the id is no src-<digits>.
NoDigitsReport ==
    Grew \o Cite(DQ, <<>>, SrcDash \o <<"x">>, <<>>, DQ) \o Dot

\* 'grew<cite source=..src-1.. />.' for every way to quote the id.
QuotedReports ==
    { Grew \o Cite(ql, <<>>, ShortId(1), <<>>, qr) \o Dot :
        ql \in {<<>>, DQ, SQ}, qr \in {<<>>, DQ, SQ} }

\* 'grew<cite source="src-9" />.': a well-formed marker of an id the registry
\* never assigns here.
UnknownIdReports == { Grew \o Cite(q, <<>>, ShortId(9), <<>>, q) \o Dot : q \in {DQ, SQ} }

\* 'grew<cite source=" src-N" />.': whitespace between the quote and the id.
SpacedReports ==
    { Grew \o Cite(DQ, Sp, ShortId(n), <<>>, DQ) \o Dot : n \in {1, 2} }

\* The final_cited_report texts report_composer may write.
ComposedReports ==
    {RevenueReport, NestedReport, PlainReport, CleanReport, SpacedPunctReport,
     NoDigitsReport}
    \cup QuotedReports \cup UnknownIdReports \cup SpacedReports

\* ------------------------------------------------------------- the pipeline

\* Feedback.grade: Literal["pass", "fail"]
Grades == {"pass", "fail"}

Feedback(grade) == [grade |-> grade]

\* A checker that escalates whatever the evaluation.
ShouldEscalateAlways(evaluation_result) == TRUE

\* A checker that escalates on grade fail.
ShouldEscalateInverted(evaluation_result) ==
    /\ evaluation_result # None
    /\ evaluation_result[1].grade = "fail"

\* EscalationChecker: evaluation_result and evaluation_result.get("grade") == "pass"
ShouldEscalate(evaluation_result) ==
    /\ evaluation_result # None
    /\ DOMAIN evaluation_result[1] # {}
    /\ "grade" \in DOMAIN evaluation_result[1]
    /\ evaluation_result[1].grade = "pass"

\* A loop that runs one iteration more than max_iterations.
LoopContinuesOneMore(looped, max) == looped <= max

\* LoopAgent: the loop goes on while times_looped < max_iterations.
LoopContinues(looped, max) == looped < max

\* The agents that call the model: each one's call can raise.
LlmStages ==
    {"section_planner", "section_researcher", "research_evaluator",
     "enhanced_search_executor", "report_composer"}

Init ==
    /\ pc = "section_planner"
    /\ max_iterations \in ConfigMaxSearchIterations
    /\ times_looped = 0
    /\ events = <<>>
    /\ url_to_short_id = <<>>
    /\ sources = <<>>
    /\ research_evaluation = None
    /\ final_cited_report = None
    /\ final_report_with_citations = None
    /\ report_sections = None
    /\ section_research_findings = None
    /\ failure = None
    /\ claim_origin = <<>>
    /\ claim_index = <<>>

\* section_planner: no tools, output_key report_sections.
section_planner ==
    /\ pc = "section_planner"
    /\ events' = Append(events, AgentEvent("section_planner", None, FALSE, None))
    /\ report_sections' = Some(Len(events'))
    /\ pc' = "section_researcher"
    /\ UNCHANGED <<max_iterations, times_looped, url_to_short_id, sources,
                   section_research_findings, research_evaluation,
                   final_cited_report, final_report_with_citations, failure,
                   claim_origin, claim_index>>

\* section_researcher: searches, and emits an event with grounding metadata.
section_researcher ==
    /\ pc = "section_researcher"
    /\ \E g \in GroundingChoices :
           events' = Append(events, AgentEvent("section_researcher", g, FALSE, None))
    /\ section_research_findings' = Some(Len(events'))
    /\ pc' = "section_researcher.after_agent_callback"
    /\ UNCHANGED <<max_iterations, times_looped, url_to_short_id, sources,
                   report_sections, research_evaluation, final_cited_report,
                   final_report_with_citations, failure, claim_origin,
                   claim_index>>

\* A pipeline that goes from section_researcher to report_composer.
AfterCollectSkipsLoop == [pc |-> "report_composer", times_looped |-> times_looped]

\* Where the pipeline goes after a callback of collect_research_sources_callback:
\* from section_researcher into the loop (max_iterations >= 1); from
\* enhanced_search_executor, the last sub-agent, to the next iteration or out.
AfterCollect ==
    IF pc = "section_researcher.after_agent_callback"
    THEN [pc |-> "research_evaluator", times_looped |-> 0]
    ELSE IF LoopContinues(times_looped + 1, max_iterations)
         THEN [pc |-> "research_evaluator", times_looped |-> times_looped + 1]
         ELSE [pc |-> "report_composer", times_looped |-> times_looped + 1]

\* after_agent_callback of section_researcher and of enhanced_search_executor.
collect_research_sources_callback ==
    /\ pc \in {"section_researcher.after_agent_callback",
               "enhanced_search_executor.after_agent_callback"}
    /\ LET reg == CollectResearchSources(events, url_to_short_id, sources,
                                         claim_origin, claim_index)
       IN  /\ url_to_short_id' = reg.url_to_short_id
           /\ sources' = reg.sources
           /\ claim_origin' = reg.origin
           /\ claim_index' = reg.index
    /\ pc' = AfterCollect.pc
    /\ times_looped' = AfterCollect.times_looped
    /\ UNCHANGED <<max_iterations, events, report_sections,
                   section_research_findings, research_evaluation,
                   final_cited_report, final_report_with_citations, failure>>

\* research_evaluator: output_schema Feedback, output_key research_evaluation.
research_evaluator ==
    /\ pc = "research_evaluator"
    /\ \E grade \in Grades :
           /\ research_evaluation' = Some(Feedback(grade))
           /\ events' = Append(events,
                  AgentEvent("research_evaluator", None, FALSE, Some(grade)))
    /\ pc' = "escalation_checker"
    /\ UNCHANGED <<max_iterations, times_looped, url_to_short_id, sources,
                   report_sections, section_research_findings,
                   final_cited_report, final_report_with_citations, failure,
                   claim_origin, claim_index>>

\* EscalationChecker._run_async_impl, and the LoopAgent reading its event: an
\* escalating event ends the loop, another one lets the next sub-agent run.
escalation_checker ==
    /\ pc = "escalation_checker"
    /\ LET escalate == ShouldEscalate(research_evaluation)
       IN  /\ events' = Append(events, AgentEvent("escalation_checker", None, escalate, None))
           /\ pc' = IF escalate THEN "report_composer" ELSE "enhanced_search_executor"
    /\ UNCHANGED <<max_iterations, times_looped, url_to_short_id, sources,
                   report_sections, section_research_findings,
                   research_evaluation, final_cited_report,
                   final_report_with_citations, failure, claim_origin,
                   claim_index>>

\* enhanced_search_executor: searches again, and emits an event with grounding
\* metadata.
enhanced_search_executor ==
    /\ pc = "enhanced_search_executor"
    /\ \E g \in GroundingChoices :
           events' = Append(events, AgentEvent("enhanced_search_executor", g, FALSE, None))
    /\ section_research_findings' = Some(Len(events'))
    /\ pc' = "enhanced_search_executor.after_agent_callback"
    /\ UNCHANGED <<max_iterations, times_looped, url_to_short_id, sources,
                   report_sections, research_evaluation, final_cited_report,
                   final_report_with_citations, failure, claim_origin,
                   claim_index>>

\* report_composer: output_key final_cited_report.
report_composer ==
    /\ pc = "report_composer"
    /\ \E text \in ComposedReports : final_cited_report' = Some(text)
    /\ events' = Append(events, AgentEvent("report_composer_with_citations", None, FALSE, None))
    /\ pc' = "report_composer.after_agent_callback"
    /\ UNCHANGED <<max_iterations, times_looped, url_to_short_id, sources,
                   report_sections, section_research_findings,
                   research_evaluation, final_report_with_citations, failure,
                   claim_origin, claim_index>>

\* after_agent_callback of report_composer.
citation_replacement_callback ==
    /\ pc = "report_composer.after_agent_callback"
    /\ final_report_with_citations' =
           Some(ProcessedReport(OrEmpty(final_cited_report), sources))
    /\ pc' = "done"
    /\ UNCHANGED <<max_iterations, times_looped, events, url_to_short_id, sources,
                   report_sections, section_research_findings,
                   research_evaluation, final_cited_report, failure,
                   claim_origin, claim_index>>

\* A pipeline that runs a stage again when it raises.
AfterFailureRetry(stage) == stage

\* A stage that raises to the pipeline goes nowhere: the SequentialAgent and
\* the LoopAgent catch nothing and retry nothing.
AfterFailure(stage) == "failed"

\* The LLM call of an agent raises before the agent's final event: no event is
\* appended and no output_key is saved, no callback runs, and the exception
\* leaves research_pipeline.
stage_failure ==
    /\ pc \in LlmStages
    /\ failure' = Some(pc)
    /\ pc' = AfterFailure(pc)
    /\ UNCHANGED <<max_iterations, times_looped, events, url_to_short_id, sources,
                   report_sections, section_research_findings,
                   research_evaluation, final_cited_report,
                   final_report_with_citations, claim_origin, claim_index>>

Next ==
    \/ section_planner
    \/ section_researcher
    \/ collect_research_sources_callback
    \/ research_evaluator
    \/ escalation_checker
    \/ enhanced_search_executor
    \/ report_composer
    \/ citation_replacement_callback
    \/ stage_failure

Spec == Init /\ [][Next]_vars

\* ------------------------------------------------ what the claims speak about

\* The callback of a searching agent has not run yet on the agent's event.
CollectPending ==
    pc \in {"section_researcher.after_agent_callback",
            "enhanced_search_executor.after_agent_callback"}

\* The events of the session the registry has read at least once.
Ingested == IF CollectPending THEN SubSeq(events, 1, Len(events) - 1) ELSE events

\* The web chunks of an event the registry reads: 0-based index and uri.
WebRefs(event) ==
    IF event.grounding_metadata = None THEN {}
    ELSE LET chunks == event.grounding_metadata[1].grounding_chunks
         IN  { <<idx, chunks[idx + 1].web[1].uri>> :
                   idx \in {i \in 0..(Len(chunks) - 1) : chunks[i + 1].web # None} }

RECURSIVE EventUrls(_, _)
\* The uris of the web chunks of an event, in chunk order from 0-based idx on.
EventUrls(event, idx) ==
    IF event.grounding_metadata = None
       \/ idx >= Len(event.grounding_metadata[1].grounding_chunks)
    THEN <<>>
    ELSE LET chunk == event.grounding_metadata[1].grounding_chunks[idx + 1]
         IN  (IF chunk.web = None THEN <<>> ELSE <<chunk.web[1].uri>>)
             \o EventUrls(event, idx + 1)

RECURSIVE SeenUrls(_, _)
\* The web uris of events evs[k..], in event order and then chunk order.
SeenUrls(evs, k) ==
    IF k > Len(evs) THEN <<>> ELSE EventUrls(evs[k], 0) \o SeenUrls(evs, k + 1)

RECURSIVE FirstSeen(_, _)
\* The distinct elements of urls[k..] not in seen, in order of first occurrence.
FirstSeen(urls, seen) ==
    IF urls = <<>> THEN <<>>
    ELSE IF Head(urls) \in seen THEN FirstSeen(Tail(urls), seen)
         ELSE <<Head(urls)>> \o FirstSeen(Tail(urls), seen \cup {Head(urls)})

\* The (support, position) references of an event to a web chunk with uri url.
References(event, url) ==
    IF event.grounding_metadata = None THEN {}
    ELSE LET supports == event.grounding_metadata[1].grounding_supports
             Indices(k) == OrEmpty(supports[k].grounding_chunk_indices)
         IN  UNION { { <<k, i>> : i \in {j \in 1..Len(Indices(k)) :
                                           <<Indices(k)[j], url>> \in WebRefs(event)} } :
                     k \in 1..Len(supports) }

\* How many times e occurs in seq.
Occurrences(seq, e) == Cardinality({j \in 1..Len(seq) : seq[j] = e})

\* The claims one event contributes to the source of url: those its ingestion
\* into an empty registry appends, in support order and then index order.
Contributed(event, url) ==
    LET reg == CollectEvent([url_to_short_id |-> <<>>, sources |-> <<>>,
                             origin |-> <<>>, index |-> <<>>, id_counter |-> 1],
                            event, 0)
    IN  IF url \in DOMAIN reg.url_to_short_id
        THEN reg.sources[reg.url_to_short_id[url]].supported_claims
        ELSE <<>>

\* The positions in session.events of the events of an author.
EventsOf(author) == {k \in 1..Len(events) : events[k].author = author}

RECURSIVE Authors(_, _)
\* The authors of events evs[k..].
Authors(evs, k) ==
    IF k > Len(evs) THEN <<>> ELSE <<evs[k].author>> \o Authors(evs, k + 1)

\* The evaluator events that grade pass.
PassEvents ==
    {k \in EventsOf("research_evaluator") : events[k].feedback = Some("pass")}

\* The loop is over: report_composer is next, or has run.
AfterLoop ==
    pc \in {"report_composer", "report_composer.after_agent_callback", "done"}

RECURSIVE Iterations(_)
\* n full iterations of the loop, as authors.
Iterations(n) ==
    IF n = 0 THEN <<>>
    ELSE <<"research_evaluator", "escalation_checker", "enhanced_search_executor">>
         \o Iterations(n - 1)

\* The authors of the events the loop has emitted.
LoopAuthors ==
    SelectSeq(Authors(events, 1),
              LAMBDA a : a \in {"research_evaluator", "escalation_checker",
                                "enhanced_search_executor"})

\* ------------------------------------------------------------------ claims

\* C1: after any number of callbacks over any events, url_to_short_id is
\* injective and maps the n-th distinct web url, in first-seen order over the
\* session's events, to src-n, whichever agent emitted the event.
C1_ShortIdsFirstSeenOrder ==
    LET seen == FirstSeen(SeenUrls(Ingested, 1), {})
    IN  /\ DOMAIN url_to_short_id = {seen[n] : n \in 1..Len(seen)}
        /\ \A n \in 1..Len(seen) : url_to_short_id[seen[n]] = ShortId(n)
        /\ \A u, v \in DOMAIN url_to_short_id :
               url_to_short_id[u] = url_to_short_id[v] => u = v

\* Three urls are indexed, the third first seen in an event of the refiner after
\* the callback had run before.
C1_Witness ==
    /\ ~CollectPending
    /\ Cardinality(DOMAIN url_to_short_id) = 3
    /\ \E k \in EventsOf("enhanced_search_executor") :
           /\ EventUrls(events[k], 0) # <<>>
           /\ LET seen == FirstSeen(SeenUrls(events, 1), {})
              IN  /\ seen[3] \notin {SeenUrls(SubSeq(events, 1, k - 1), 1)[j] :
                                       j \in 1..Len(SeenUrls(SubSeq(events, 1, k - 1), 1))}
                  /\ url_to_short_id[seen[3]] = ShortId(3)

\* C2: each grounding event is ingested exactly once: for every source and
\* every event read, the claims of the source that came from the event are as
\* many as the event's references to the source, however often the callback ran.
C2_EachEventIngestedOnce ==
    \A url \in DOMAIN url_to_short_id : \A k \in 1..Len(Ingested) :
        Occurrences(claim_origin[url_to_short_id[url]], k)
            = Cardinality(References(events[k], url))

\* C3: two different events that both reference a url, and no other event that
\* does, give one source for the url whose supported_claims is the first event's
\* claims followed by the second's.
C3_TwoEventsConcatenate ==
    \A url \in DOMAIN url_to_short_id :
        \A k1, k2 \in 1..Len(Ingested) :
            ( /\ k1 < k2
              /\ \A k \in 1..Len(Ingested) :
                     (\E r \in WebRefs(events[k]) : r[2] = url) <=> k \in {k1, k2} )
            => /\ Cardinality({s \in DOMAIN sources : sources[s].url = url}) = 1
               /\ sources[url_to_short_id[url]].supported_claims
                      = Contributed(events[k1], url) \o Contributed(events[k2], url)

\* C4: in a run no stage of which raised, when the evaluator first grades pass
\* in iteration k, the loop ends right after that iteration's
\* escalation_checker: the evaluator has run k times, the refiner k - 1 times,
\* and nothing of the loop runs after the checker.
C4_PassEndsLoop ==
    (PassEvents # {} /\ failure = None) =>
        LET first == CHOOSE p \in PassEvents : \A q \in PassEvents : p <= q
            k == Cardinality({e \in EventsOf("research_evaluator") : e <= first})
        IN  /\ k \in 1..max_iterations
            /\ Cardinality(EventsOf("research_evaluator")) = k
            /\ Cardinality(EventsOf("enhanced_search_executor")) = k - 1
            /\ pc = "escalation_checker" \/ AfterLoop
            /\ AfterLoop =>
                   /\ LoopAuthors = Iterations(k - 1)
                          \o <<"research_evaluator", "escalation_checker">>
                   /\ times_looped = k - 1

\* The evaluator graded pass in iteration 2 of 3, and the pipeline is done.
C4_Witness ==
    /\ pc = "done"
    /\ max_iterations = 3
    /\ Cardinality(EventsOf("research_evaluator")) = 2
    /\ PassEvents # {}

\* C5: in a run no stage of which raised, when the evaluator never grades
\* pass, the loop runs max_iterations full iterations (evaluator, checker,
\* refiner, in that order) and no more, then ends, and report_composer runs
\* with the last research_evaluation written.
C5_ExhaustionRunsAllIterations ==
    (PassEvents = {} /\ failure = None) =>
        /\ Cardinality(EventsOf("research_evaluator")) <= max_iterations
        /\ times_looped <= max_iterations
        /\ (times_looped = max_iterations /\ ~CollectPending) => AfterLoop
        /\ AfterLoop =>
               /\ LoopAuthors = Iterations(max_iterations)
               /\ times_looped = max_iterations
               /\ LET last == CHOOSE k \in EventsOf("research_evaluator") :
                                  \A j \in EventsOf("research_evaluator") : j <= k
                  IN  research_evaluation = Some(Feedback(events[last].feedback[1]))

\* Three iterations without a pass, and report_composer has run.
C5_Witness ==
    /\ pc = "done"
    /\ PassEvents = {}
    /\ max_iterations = 3
    /\ LoopAuthors = Iterations(3)
    /\ events[Len(events)].author = "report_composer_with_citations"

\* {}: a research_evaluation without keys.
EmptyDict == [k \in {} |-> None]

\* C6: EscalationChecker emits exactly one event per run, which escalates if and
\* only if research_evaluation is there, is not empty and has grade pass; it
\* writes no state key.
C6_CheckerEscalatesIffPass ==
    /\ ~ShouldEscalate(None)
    /\ ~ShouldEscalate(Some(EmptyDict))
    /\ ~ShouldEscalate(Some(Feedback("fail")))
    /\ ShouldEscalate(Some(Feedback("pass")))
    /\ [][pc = "escalation_checker" =>
              /\ Len(events') = Len(events) + 1
              /\ SubSeq(events', 1, Len(events)) = events
              /\ events'[Len(events')].author = "escalation_checker"
              /\ events'[Len(events')].escalate
                     <=> (research_evaluation # None
                          /\ research_evaluation[1].grade = "pass")
              /\ UNCHANGED <<url_to_short_id, sources, research_evaluation,
                             final_cited_report, final_report_with_citations>>]_vars

\* The checker has just escalated on a pass of the second iteration.
C6_Witness ==
    /\ events # <<>>
    /\ events[Len(events)].author = "escalation_checker"
    /\ events[Len(events)].escalate
    /\ research_evaluation = Some(Feedback("pass"))
    /\ Cardinality(EventsOf("escalation_checker")) = 2

\* The reports of QuotedReports whose id stands in a matching pair of quotes.
WellFormedReports ==
    { Grew \o Cite(q, <<>>, ShortId(1), <<>>, q) \o Dot : q \in {DQ, SQ} }

\* The reports with a marker that fails the strict grammar: an unquoted id, a
\* quote on one side only, two different quotes, whitespace after the quote.
MalformedReports == (QuotedReports \ WellFormedReports) \cup SpacedReports

\* The marker grammar as specified, tried at position i of s: <cite source=,
\* the id src-<digits> in a matching pair of single or double quotes, />, with
\* whitespace allowed around = and before />.
StrictCiteMatch(s, i) ==
    LET p1 == Lit(s, i, CiteOpen)
        p2 == Plus(s, p1, Whitespace)
        p3 == Lit(s, p2, SourceWord)
        p4 == Star(s, p3, Whitespace)
        p5 == Lit(s, p4, Equals)
        p6 == Star(s, p5, Whitespace)
        p7 == IF p6 # 0 /\ p6 <= Len(s) /\ s[p6] \in Quote THEN p6 + 1 ELSE 0
        p8 == Lit(s, p7, SrcDash)
        p9 == Plus(s, p8, Digit)
        p10 == IF p9 # 0 /\ p9 <= Len(s) /\ s[p9] = s[p6] THEN p9 + 1 ELSE 0
        p11 == Star(s, p10, Whitespace)
    IN  Lit(s, p11, SlashClose) # 0

\* 'Revenue grew [A](https://a.com), says report.'
RevenueRendered ==
    Revenue \o Sp \o Grew \o Sp \o <<"[">> \o TitleA \o <<"]", "(">> \o UrlA
    \o <<")">> \o Comma \o Sp \o Says \o Sp \o Report \o Dot

\* C7: 'Revenue grew <cite source="src-1" /> , says report.' with src-1 of title
\* A and url https://a.com renders as 'Revenue grew [A](https://a.com), says
\* report.'
C7_RevenueExampleRendered ==
    ( /\ pc = "done"
      /\ final_cited_report = Some(RevenueReport)
      /\ ShortId(1) \in DOMAIN sources
      /\ sources[ShortId(1)].title = TitleA
      /\ sources[ShortId(1)].url = UrlA )
    => final_report_with_citations = Some(RevenueRendered)

\* C8: a marker that fails the strict grammar is left verbatim in the rendered
\* report, neither made a link nor elided.
C8_MalformedMarkerLeftVerbatim ==
    (pc = "done" /\ OrEmpty(final_cited_report) \in MalformedReports)
    => final_report_with_citations = final_cited_report

\* C9: a well-formed marker whose id is no key of sources is replaced by the
\* empty string, and no rendered report holds text that matches the marker
\* grammar.
C9_NoResidualMarker ==
    pc = "done" =>
        LET report == final_cited_report[1]
            rendered == final_report_with_citations[1]
        IN  /\ \A q \in {DQ, SQ} : \A n \in {1, 9} :
                   ( /\ report = Grew \o Cite(q, <<>>, ShortId(n), <<>>, q) \o Dot
                     /\ ShortId(n) \notin DOMAIN sources )
                   => rendered = Grew \o Dot
            /\ \A i \in 1..Len(rendered) : ~StrictCiteMatch(rendered, i)

\* The display text the specification gives a source: its title if not empty,
\* else its domain if not empty, else the short id.
SpecifiedDisplayText(source_info, short_id) ==
    IF source_info.title # EmptyText THEN source_info.title
    ELSE IF source_info.domain # EmptyText THEN source_info.domain
         ELSE short_id

\* C10: the link of a marker whose id is in sources shows the source's title if
\* not empty, else its domain if not empty, else the short id; never an empty
\* display text.
C10_DisplayTextNeverEmpty ==
    pc = "done" =>
        \A short_id \in DOMAIN sources : \A q \in {DQ, SQ} :
            final_cited_report = Some(Grew \o Cite(q, <<>>, short_id, <<>>, q) \o Dot)
            => final_report_with_citations =
                   Some(Grew \o <<" ", "[">>
                        \o SpecifiedDisplayText(sources[short_id], short_id)
                        \o <<"]", "(">> \o sources[short_id].url \o <<")">> \o Dot)

RECURSIVE InsertedMask(_, _, _)
\* For each character of the report after the markers are replaced: TRUE if a
\* replacement put it there, FALSE if it is a character of the report.
InsertedMask(s, i, srcs) ==
    IF i > Len(s) THEN <<>>
    ELSE LET m == CiteMatch(s, i)
         IN  IF m.ok
             THEN [k \in 1..Len(TagReplacer(m.group1, srcs)) |-> TRUE]
                  \o InsertedMask(s, m.end, srcs)
             ELSE <<FALSE>> \o InsertedMask(s, i + 1, srcs)

RECURSIVE OwnRun(_, _, _)
\* The position after the longest run from i of whitespace of the report.
OwnRun(s, mask, i) ==
    IF i <= Len(s) /\ s[i] \in Whitespace /\ ~mask[i]
    THEN OwnRun(s, mask, i + 1)
    ELSE i

RECURSIVE CleanOwn(_, _, _)
\* The cleanup that removes whitespace of the report before punctuation of the
\* report, and copies every inserted character.
CleanOwn(s, mask, i) ==
    IF i > Len(s) THEN <<>>
    ELSE LET j == OwnRun(s, mask, i)
         IN  IF j > i /\ j <= Len(s) /\ s[j] \in Punctuation /\ ~mask[j]
             THEN <<s[j]>> \o CleanOwn(s, mask, j + 1)
             ELSE <<s[i]>> \o CleanOwn(s, mask, i + 1)

\* The rendering that leaves each link as the replacement wrote it.
SpecifiedRender(report, srcs) ==
    CleanOwn(SubCite(report, 1, srcs), InsertedMask(report, 1, srcs), 1)

\* C11: rendering alters nothing but the markers and the whitespace of the
\* report that comes just before one of . , ; : -- every other character is
\* kept in order, and the title and the url of each resolved marker are in the
\* output verbatim, also when they hold whitespace followed by punctuation.
C11_OnlyMarkersAndReportWhitespaceAltered ==
    pc = "done" =>
        final_report_with_citations =
            Some(SpecifiedRender(final_cited_report[1], sources))

\* The states a callback of collect_research_sources_callback leaves: the
\* evaluator or, after the last iteration, report_composer runs next.  The
\* registry changes in no other step.
AfterIngestion == pc \in {"research_evaluator", "report_composer"}

\* The claim the specification appends for position i (0-based) of the chunk
\* indices of a support.
SpecifiedClaim(support, i) ==
    [text_segment |-> IF support.segment = None THEN EmptyText
                      ELSE support.segment[1].text,
     confidence |-> IF support.confidence_scores # None
                       /\ i + 1 <= Len(support.confidence_scores[1])
                    THEN support.confidence_scores[1][i + 1]
                    ELSE DefaultConfidence]

RECURSIVE SpecifiedOfSupport(_, _, _, _)
\* The claims a support gives the source of url, from position i on.
SpecifiedOfSupport(event, support, i, url) ==
    LET chunk_indices == OrEmpty(support.grounding_chunk_indices)
    IN  IF i >= Len(chunk_indices) THEN <<>>
        ELSE (IF <<chunk_indices[i + 1], url>> \in WebRefs(event)
              THEN <<SpecifiedClaim(support, i)>> ELSE <<>>)
             \o SpecifiedOfSupport(event, support, i + 1, url)

RECURSIVE SpecifiedOfEvent(_, _, _)
\* The claims an event gives the source of url, from its k-th support on.
SpecifiedOfEvent(event, k, url) ==
    IF event.grounding_metadata = None
       \/ k > Len(event.grounding_metadata[1].grounding_supports)
    THEN <<>>
    ELSE SpecifiedOfSupport(event, event.grounding_metadata[1].grounding_supports[k],
                            0, url)
         \o SpecifiedOfEvent(event, k + 1, url)

RECURSIVE ClaimsFrom(_, _, _)
\* The supported_claims of source short_id that came from event e, in order,
\* from position j on.
ClaimsFrom(short_id, e, j) ==
    IF j > Len(sources[short_id].supported_claims) THEN <<>>
    ELSE (IF claim_origin[short_id][j] = e
          THEN <<sources[short_id].supported_claims[j]>> ELSE <<>>)
         \o ClaimsFrom(short_id, e, j + 1)

RECURSIVE Repeat(_, _)
\* seq, m times over.
Repeat(seq, m) == IF m = 0 THEN <<>> ELSE seq \o Repeat(seq, m - 1)

\* C12: each claim appended for the i-th chunk index of a support has
\* confidence confidence_scores[i] when that score is there and 0.5 when the
\* scores are absent or shorter than i + 1, and has the text of the segment, or
\* the empty string when the segment is absent: what each event gave a source
\* after every callback, what each event gave a source is these claims, in
\* support and index order, once per ingestion.
C12_ClaimConfidenceAndText ==
    AfterIngestion =>
        \A url \in DOMAIN url_to_short_id : \A e \in 1..Len(events) :
            \E m \in 0..Len(events) :
                ClaimsFrom(url_to_short_id[url], e, 1)
                    = Repeat(SpecifiedOfEvent(events[e], 1, url), m)

\* A source holds a claim with the score given, one with the default for a
\* score list shorter than the position, and one of a support without segment
\* and without scores.
C12_Witness ==
    AfterIngestion /\ \E short_id \in DOMAIN sources :
        LET claims == sources[short_id].supported_claims
            Holds(c) == \E j \in 1..Len(claims) : claims[j] = c
        IN  /\ Holds([text_segment |-> SegTwo, confidence |-> 15])
            /\ Holds([text_segment |-> SegTwo, confidence |-> DefaultConfidence])
            /\ Holds([text_segment |-> EmptyText, confidence |-> DefaultConfidence])

\* [0, 1] in tenths.
UnitInterval == 0..10

\* C13: every stored confidence lies in [0, 1]: a positional score below 0 or
\* above 1 is replaced by the default 0.5 and not stored as given.
C13_ConfidenceInUnitInterval ==
    \A short_id \in DOMAIN sources :
        \A j \in 1..Len(sources[short_id].supported_claims) :
            sources[short_id].supported_claims[j].confidence \in UnitInterval

\* a is b, or the beginning of b.
IsPrefix(a, b) == Len(a) <= Len(b) /\ SubSeq(b, 1, Len(a)) = a

\* C14: the registry only grows: no step removes a key of url_to_short_id or
\* of sources or maps a url to another short id, no step changes the title,
\* url or domain of a source, and the supported_claims of a source before a
\* step are the beginning of its supported_claims after it.
C14_RegistryOnlyGrows ==
    [][ /\ DOMAIN url_to_short_id \subseteq DOMAIN url_to_short_id'
        /\ DOMAIN sources \subseteq DOMAIN sources'
        /\ \A url \in DOMAIN url_to_short_id :
               url_to_short_id'[url] = url_to_short_id[url]
        /\ \A short_id \in DOMAIN sources :
               /\ sources'[short_id].title = sources[short_id].title
               /\ sources'[short_id].url = sources[short_id].url
               /\ sources'[short_id].domain = sources[short_id].domain
               /\ IsPrefix(sources[short_id].supported_claims,
                           sources'[short_id].supported_claims) ]_vars

\* A callback has added claims of another event to a source that had claims,
\* and a later callback has added a source to the registry.
C14_Witness ==
    /\ Cardinality(DOMAIN sources) >= 3
    /\ \E short_id \in DOMAIN sources :
           \E j, k \in 1..Len(claim_origin[short_id]) :
               claim_origin[short_id][j] # claim_origin[short_id][k]

\* The sub_agents of research_pipeline, by the author of their events.
StageOrder ==
    <<"section_planner", "section_researcher", "iterative_refinement_loop",
      "report_composer_with_citations">>

\* The top-level stage an event belongs to.
StageOf(author) ==
    IF author \in {"research_evaluator", "escalation_checker",
                   "enhanced_search_executor"}
    THEN "iterative_refinement_loop"
    ELSE author

RECURSIVE StagesRun(_)
\* The top-level stages of events[1..k] in order, a run of events of one stage
\* counted once.
StagesRun(k) ==
    IF k = 0 THEN <<>>
    ELSE LET before == StagesRun(k - 1)
             stage == StageOf(events[k].author)
         IN  IF before # <<>> /\ before[Len(before)] = stage
             THEN before
             ELSE Append(before, stage)

\* A stage has begun: it runs next, or has emitted an event.
Begun(stage) ==
    \/ pc = stage
    \/ \E k \in 1..Len(events) : StageOf(events[k].author) = stage

\* The registry holds every web uri of the events of session.events.
AllIngested ==
    \A k \in 1..Len(events) : \A r \in WebRefs(events[k]) :
        r[2] \in DOMAIN url_to_short_id

\* C15: the top-level stages run once each, in the order section_planner,
\* section_researcher, iterative_refinement_loop, report_composer, and all of
\* them in a run no stage of which raised; the output key of a stage, and the
\* registry update of its after-callback, is written before the next stage
\* begins, so that the report is rendered after the last ingestion.
C15_StagesOnceInOrder ==
    /\ IsPrefix(StagesRun(Len(events)), StageOrder)
    /\ \A author \in {"section_planner", "section_researcher",
                       "report_composer_with_citations"} :
           Cardinality(EventsOf(author)) <= 1
    /\ pc = "done" => StagesRun(Len(events)) = StageOrder
    /\ Begun("section_researcher") =>
           /\ report_sections # None
           /\ events[report_sections[1]].author = "section_planner"
    /\ (pc = "research_evaluator" \/ Begun("iterative_refinement_loop")) =>
           /\ section_research_findings # None
           /\ \A k \in EventsOf("section_researcher") :
                  \A r \in WebRefs(events[k]) : r[2] \in DOMAIN url_to_short_id
    /\ (pc = "report_composer" \/ Begun("report_composer_with_citations")) =>
           /\ research_evaluation # None
           /\ events[section_research_findings[1]].author
                  \in {"section_researcher", "enhanced_search_executor"}
           /\ \A k \in EventsOf("enhanced_search_executor") :
                  section_research_findings[1] >= k
           /\ AllIngested
    /\ final_report_with_citations # None =>
           /\ pc = "done"
           /\ AllIngested
           /\ final_report_with_citations =
                  Some(ProcessedReport(final_cited_report[1], sources))

\* A run with two refinements is done: every stage has run.
C15_Witness ==
    /\ pc = "done"
    /\ failure = None
    /\ Cardinality(EventsOf("enhanced_search_executor")) = 2
    /\ Cardinality(DOMAIN url_to_short_id) >= 3
    /\ final_report_with_citations # None

\* The keys of the shared state.
SharedState ==
    <<url_to_short_id, sources, report_sections, section_research_findings,
      research_evaluation, final_cited_report, final_report_with_citations>>

MarkerFree(s) == \A i \in 1..Len(s) : ~CiteMatch(s, i).ok

\* The reports of the composer without marker.
MarkerFreeReports == {text \in ComposedReports : MarkerFree(text)}

\* No whitespace of s comes just before one of . , ; :
NoSpaceBeforePunctuation(s) ==
    \A i \in 1..(Len(s) - 1) : ~(s[i] \in Whitespace /\ s[i + 1] \in Punctuation)

Chunkless(event) ==
    /\ event.grounding_metadata # None
    /\ event.grounding_metadata[1].grounding_chunks = <<>>

\* C18: a chunk index is resolved within the event that carries it: every
\* claim of a source S came from a chunk index i of an event whose own i-th
\* grounding chunk is a web chunk with uri S.url; so an index of a chunk
\* without web, an index beyond the chunks of the event, an index that fits
\* only a chunk of another event, and an event without grounding chunks give
\* no claim.
C18_IndicesResolvedWithinEvent ==
    AfterIngestion =>
        \A short_id \in DOMAIN sources :
            /\ Len(claim_origin[short_id]) = Len(sources[short_id].supported_claims)
            /\ Len(claim_index[short_id]) = Len(sources[short_id].supported_claims)
            /\ \A j \in 1..Len(sources[short_id].supported_claims) :
                   <<claim_index[short_id][j], sources[short_id].url>>
                       \in WebRefs(events[claim_origin[short_id][j]])

\* The registry has read an event with a chunk without web and an index beyond
\* its chunks, and, after an event with a web chunk at index 0, an event
\* without chunks whose support has index 0.
C18_Witness ==
    /\ AfterIngestion
    /\ \E short_id \in DOMAIN sources : \E j \in 1..Len(claim_origin[short_id]) :
           events[claim_origin[short_id][j]].grounding_metadata[1].grounding_chunks[1]
               = NoWebChunk
    /\ \E k \in 1..Len(events) :
           /\ Chunkless(events[k])
           /\ \E before \in 1..(k - 1) : \E r \in WebRefs(events[before]) : r[1] = 0

\* C19: the keys of sources are the short ids url_to_short_id maps to, and
\* for every url u mapped to a short id s, the record sources[s] has url u and
\* short_id s.
C19_SourcesMatchIndex ==
    /\ DOMAIN sources = {url_to_short_id[url] : url \in DOMAIN url_to_short_id}
    /\ \A url \in DOMAIN url_to_short_id :
           LET short_id == url_to_short_id[url]
           IN  /\ short_id \in DOMAIN sources
               /\ sources[short_id].url = url
               /\ sources[short_id].short_id = short_id

\* Three callbacks have put the four urls into the registry.
C19_Witness ==
    /\ Cardinality(DOMAIN url_to_short_id) = 4
    /\ Cardinality(EventsOf("enhanced_search_executor")) = 2
    /\ AfterIngestion

\* The session holds no event the callback has not read: the last event is the
\* one of the searching agent whose callback has just run.
NoNewEvents ==
    /\ AfterIngestion
    /\ events[Len(events)].author
           \in {"section_researcher", "enhanced_search_executor"}

\* C20: running collect_research_sources_callback again when the session
\* holds no new event leaves url_to_short_id, the keys of sources and the
\* title, url and domain of every source as they are: no short id is
\* allocated, and the next value of id_counter stays len(url_to_short_id) + 1.
C20_ReingestionAllocatesNothing ==
    NoNewEvents =>
        LET reg == CollectResearchSources(events, url_to_short_id, sources,
                                          claim_origin, claim_index)
        IN  /\ reg.url_to_short_id = url_to_short_id
            /\ DOMAIN reg.sources = DOMAIN sources
            /\ \A short_id \in DOMAIN sources :
                   /\ reg.sources[short_id].title = sources[short_id].title
                   /\ reg.sources[short_id].url = sources[short_id].url
                   /\ reg.sources[short_id].domain = sources[short_id].domain
            /\ reg.id_counter = Cardinality(DOMAIN url_to_short_id) + 1

\* The callback has run twice, the registry holds three urls or more and a
\* source with claims, and the session holds no new event.
C20_Witness ==
    /\ NoNewEvents
    /\ Cardinality(EventsOf("enhanced_search_executor")) = 1
    /\ Cardinality(DOMAIN url_to_short_id) >= 3
    /\ \E short_id \in DOMAIN sources : sources[short_id].supported_claims # <<>>

====
